---- MODULE Spec2Model ----
(***************************************************************************)
(* Model of cyipopt/deprecated.py: the deprecation-message formatter       *)
(* generate_deprecation_warning_msg, the decorator deprecated_warning with *)
(* its per-call wrapper, and the class substitute problem.                 *)
(*                                                                         *)
(* Python values are tagged records: PyNone, PyStr(s), PyInt(n).  A call   *)
(* ends in an outcome: [kind |-> "return", value |-> v] or                 *)
(* [kind |-> "raise", exc |-> e].                                          *)
(***************************************************************************)
EXTENDS Integers, Sequences, FiniteSets, TLC

VARIABLES
    fmtArgs,     \* arguments of a direct call of the formatter
    fmtResults,  \* outcomes of the direct formatter calls on fmtArgs, in order
    func,        \* the original callable: its __name__ and its __objclass__
    closure,     \* cells captured by decorate: old_name, new_name (or Unbound)
    filter,      \* the process-wide warning filter action for FutureWarning
    calls        \* history of the calls of the wrapper and of problem

vars == <<fmtArgs, fmtResults, func, closure, filter, calls>>

-----------------------------------------------------------------------------
(* Bounds *)

\* direct formatter calls made on one argument tuple
MaxRepeat == 2
\* calls of the wrapper / of problem kept in the history
MaxCalls == 2

-----------------------------------------------------------------------------
(* Python values *)

PyNone == [py |-> "None"]
PyStr(s) == [py |-> "str", s |-> s]
PyInt(n) == [py |-> "int", n |-> n]

Digit(d) == SubSeq("0123456789", d + 1, d + 1)

RECURSIVE IntStr(_)
IntStr(n) == IF n < 10 THEN Digit(n) ELSE IntStr(n \div 10) \o Digit(n % 10)

\* str(v), which is also what an f-string field {v} interpolates
Str(v) ==
    CASE v.py = "str" -> v.s
      [] v.py = "int" -> IntStr(v.n)
      [] v.py = "None" -> "None"

Return(v) == [kind |-> "return", value |-> v]
Raise(type, msg) == [kind |-> "raise", exc |-> [type |-> type, msg |-> msg]]

\* t occurs in s as a contiguous substring
Contains(s, t) ==
    \E i \in 1..(Len(s) - Len(t) + 1) : SubSeq(s, i, i + Len(t) - 1) = t

-----------------------------------------------------------------------------
(* generate_deprecation_warning_msg *)

\* the message text for a given class clause
MsgText(what, old_name, new_name, clause) ==
    "The " \o Str(what) \o " named '" \o Str(old_name) \o "' " \o clause
    \o "will soon be deprecated in CyIpopt. Please replace all uses and use '"
    \o Str(new_name) \o "' going forward."

\* variant: the validation of the docstring's Raises section (class_name
\* supplied and what is not "class")
generate_msg_docstring_rule(what, old_name, new_name, class_name) ==
    IF what # PyStr("class") /\ class_name # PyNone
    THEN Raise("ValueError", "Incorrect use of function arguments.")
    ELSE Return(PyStr(MsgText(what, old_name, new_name,
            IF class_name # PyNone
            THEN "in class '" \o Str(class_name) \o "' " ELSE "")))

\* variant: tests the truth value of class_name instead of "is not None"
generate_msg_truthy(what, old_name, new_name, class_name) ==
    LET truthy == class_name \notin {PyNone, PyStr(""), PyInt(0)} IN
    IF what = PyStr("class") /\ truthy
    THEN Raise("ValueError", "Incorrect use of function arguments.")
    ELSE Return(PyStr(MsgText(what, old_name, new_name,
            IF truthy THEN "in class '" \o Str(class_name) \o "' " ELSE "")))

\* variant: the class clause lacks its trailing space
generate_msg_no_space(what, old_name, new_name, class_name) ==
    IF what = PyStr("class") /\ class_name # PyNone
    THEN Raise("ValueError", "Incorrect use of function arguments.")
    ELSE Return(PyStr(MsgText(what, old_name, new_name,
            IF class_name # PyNone
            THEN "in class '" \o Str(class_name) \o "'" ELSE "")))

\* variant: the class clause is written whether or not class_name is given
generate_msg_always_clause(what, old_name, new_name, class_name) ==
    IF what = PyStr("class") /\ class_name # PyNone
    THEN Raise("ValueError", "Incorrect use of function arguments.")
    ELSE Return(PyStr(MsgText(what, old_name, new_name,
            "in class '" \o Str(class_name) \o "' ")))

generate_deprecation_warning_msg(what, old_name, new_name, class_name) ==
    IF what = PyStr("class") /\ class_name # PyNone
    THEN Raise("ValueError", "Incorrect use of function arguments.")
    ELSE LET class_name_msg ==
                 IF class_name # PyNone
                 THEN "in class '" \o Str(class_name) \o "' "
                 ELSE ""
         IN Return(PyStr(
                "The " \o Str(what) \o " named '" \o Str(old_name) \o "' "
                \o class_name_msg \o "will soon be "
                \o "deprecated in CyIpopt. Please replace all uses and use '"
                \o Str(new_name) \o "' "
                \o "going forward."))

-----------------------------------------------------------------------------
(* Inputs of the direct formatter calls *)

Whats == {PyStr("class"), PyStr("function"), PyStr("method")}
OldNames == {PyStr("problem"), PyStr("solve"), PyStr("in class"), PyStr("")}
NewNames == {PyStr("Problem"), PyStr("Solve"), PyStr("not in class 'A' ")}
ClassNames == {PyNone, PyStr("A"), PyStr(""), PyInt(0), PyInt(12)}

FmtInputs ==
    [what : Whats, old_name : OldNames, new_name : NewNames, class_name : ClassNames]

-----------------------------------------------------------------------------
(* The environment of the wrappers *)

Unbound == [bound |-> FALSE]
Absent == [present |-> FALSE]
Owner(n) == [present |-> TRUE, name |-> n]

\* the names func is declared with, and the name it is given when renamed
FuncNames == {"solve", "addOption"}
Renamed == "set_option"
NewFuncNames == {"Solve", "add_option"}
Objclasses == {Absent, Owner("Problem")}
Filters == {"always", "error"}

\* (args, kwargs) of a call; kwargs is a set of <<keyword, value>> pairs
CallArgs ==
    { [args |-> <<5>>, kwargs |-> {}],
      [args |-> <<>>, kwargs |-> {<<"x", 1>>, <<"y", 2>>}] }

\* what the original callable does when invoked: its behaviour is its own
FuncOutcomes == {Return(PyInt(7)), Raise("RuntimeError", "solver failed")}

\* what Problem(*args, **kwargs) does: an instance built from the arguments,
\* or an error of its own
ProblemOutcomes(args, kwargs) ==
    { Return([cls |-> "Problem", args |-> args, kwargs |-> kwargs]),
      Raise("TypeError", "bad arguments") }

\* warnings.warn(message, category) under the current filter: with action
\* "error" the warning is raised as an exception, otherwise it is reported
\* and warn returns
warn(message, category) ==
    IF filter = "error"
    THEN [kind |-> "raise", exc |-> [type |-> category, msg |-> Str(message)]]
    ELSE Return(PyNone)

FormatEvent(what, old_name, new_name, class_name, result) ==
    [op |-> "format", what |-> what, old_name |-> old_name,
     new_name |-> new_name, class_name |-> class_name, result |-> result]
WarnEvent(message, category, result) ==
    [op |-> "warn", message |-> message, category |-> category, result |-> result]
DelegateEvent(callee, args, kwargs, result) ==
    [op |-> "delegate", callee |-> callee, args |-> args, kwargs |-> kwargs,
     result |-> result]

\* variant: an error of the delegate is swallowed
WarnThenDelegate_swallow(pre, fmt, callee, args, kwargs, result) ==
    IF fmt.kind = "raise"
    THEN [trace |-> pre, outcome |-> fmt]
    ELSE LET w == warn(fmt.value, "FutureWarning")
             t == Append(pre, WarnEvent(fmt.value, "FutureWarning", w))
         IN IF w.kind = "raise"
            THEN [trace |-> t, outcome |-> w]
            ELSE [trace |-> Append(t, DelegateEvent(callee, args, kwargs, result)),
                  outcome |-> IF result.kind = "raise" THEN Return(PyNone)
                              ELSE result]

\* variant: the delegate is invoked before the warning is emitted
WarnThenDelegate_delegate_first(pre, fmt, callee, args, kwargs, result) ==
    IF fmt.kind = "raise"
    THEN [trace |-> pre, outcome |-> fmt]
    ELSE LET d == Append(pre, DelegateEvent(callee, args, kwargs, result))
             w == warn(fmt.value, "FutureWarning")
         IN IF result.kind = "raise"
            THEN [trace |-> d, outcome |-> result]
            ELSE [trace |-> Append(d, WarnEvent(fmt.value, "FutureWarning", w)),
                  outcome |-> IF w.kind = "raise" THEN w ELSE result]

\* emit the warning, then delegate: the tail shared by wrapper and __new__
WarnThenDelegate(pre, fmt, callee, args, kwargs, result) ==
    IF fmt.kind = "raise"
    THEN [trace |-> pre, outcome |-> fmt]
    ELSE LET w == warn(fmt.value, "FutureWarning")
             t == Append(pre, WarnEvent(fmt.value, "FutureWarning", w))
         IN IF w.kind = "raise"
            THEN [trace |-> t, outcome |-> w]
            ELSE [trace |-> Append(t, DelegateEvent(callee, args, kwargs, result)),
                  outcome |-> result]

-----------------------------------------------------------------------------
(* deprecated_warning(new_name)(func) and its wrapper *)

\* decorate: old_name is read from func.__name__ before decorate returns
decorate(new_name) == [bound |-> TRUE, old_name |-> PyStr(func.name),
                       new_name |-> PyStr(new_name)]

\* variant: the keyword arguments are not forwarded
wrapper_drop_kwargs(args, kwargs, result) ==
    LET hasObjclass == func.objclass.present
        what == IF hasObjclass THEN PyStr("method") ELSE PyStr("function")
        class_name == IF hasObjclass THEN PyStr(func.objclass.name) ELSE PyNone
        msg == generate_deprecation_warning_msg(
                   what, closure.old_name, closure.new_name, class_name)
        pre == <<FormatEvent(what, closure.old_name, closure.new_name,
                             class_name, msg)>>
    IN WarnThenDelegate(pre, msg, "func", args, {}, result)

\* variant: old_name is read from func.__name__ at each call
wrapper_name_at_call(args, kwargs, result) ==
    LET hasObjclass == func.objclass.present
        what == IF hasObjclass THEN PyStr("method") ELSE PyStr("function")
        class_name == IF hasObjclass THEN PyStr(func.objclass.name) ELSE PyNone
        msg == generate_deprecation_warning_msg(
                   what, PyStr(func.name), closure.new_name, class_name)
        pre == <<FormatEvent(what, PyStr(func.name), closure.new_name,
                             class_name, msg)>>
    IN WarnThenDelegate(pre, msg, "func", args, kwargs, result)

\* wrapper(*args, **kwargs); result is what func does when it is invoked
wrapper(args, kwargs, result) ==
    LET hasObjclass == func.objclass.present
        what == IF hasObjclass THEN PyStr("method") ELSE PyStr("function")
        class_name == IF hasObjclass THEN PyStr(func.objclass.name) ELSE PyNone
        msg == generate_deprecation_warning_msg(
                   what, closure.old_name, closure.new_name, class_name)
        pre == <<FormatEvent(what, closure.old_name, closure.new_name,
                             class_name, msg)>>
    IN WarnThenDelegate(pre, msg, "func", args, kwargs, result)

-----------------------------------------------------------------------------
(* class problem *)

\* variant: __new__ builds an instance of problem itself
problem_new_own_instance(args, kwargs, result) ==
    LET msg == generate_deprecation_warning_msg(
                   PyStr("class"), PyStr("problem"), PyStr("Problem"), PyNone)
        pre == <<FormatEvent(PyStr("class"), PyStr("problem"), PyStr("Problem"),
                             PyNone, msg)>>
        r == WarnThenDelegate(pre, msg, "object", <<>>, {},
                 Return([cls |-> "problem", args |-> args, kwargs |-> kwargs]))
    IN r

\* problem.__new__(self, *args, **kwargs); result is what Problem does
problem__new__(args, kwargs, result) ==
    LET msg == generate_deprecation_warning_msg(
                   PyStr("class"), PyStr("problem"), PyStr("Problem"), PyNone)
        pre == <<FormatEvent(PyStr("class"), PyStr("problem"), PyStr("Problem"),
                             PyNone, msg)>>
    IN WarnThenDelegate(pre, msg, "Problem", args, kwargs, result)

-----------------------------------------------------------------------------
(* Actions *)

\* one call as its caller and an observer see it: the arguments given, the
\* steps taken in order, and how the call ended; a wrapper call also notes
\* the state of the original callable at the time of the call
WrapperRecord(a, r) ==
    [target |-> "wrapper", args |-> a.args, kwargs |-> a.kwargs,
     func |-> func, trace |-> r.trace, outcome |-> r.outcome]
ProblemRecord(a, r) ==
    [target |-> "problem", args |-> a.args, kwargs |-> a.kwargs,
     trace |-> r.trace, outcome |-> r.outcome]

\* the decorator is applied to func
Decorate ==
    /\ ~closure.bound
    /\ \E n \in NewFuncNames : closure' = decorate(n)
    /\ UNCHANGED <<fmtArgs, fmtResults, func, filter, calls>>

\* the decorated callable is called
WrapperCall ==
    /\ closure.bound
    /\ Len(calls) < MaxCalls
    /\ \E a \in CallArgs, r \in FuncOutcomes :
          calls' = Append(calls, WrapperRecord(a, wrapper(a.args, a.kwargs, r)))
    /\ UNCHANGED <<fmtArgs, fmtResults, func, closure, filter>>

\* problem(*args, **kwargs): type.__call__ runs __new__, and __init__ only on
\* an instance of problem
ProblemCall ==
    /\ Len(calls) < MaxCalls
    /\ \E a \in CallArgs : \E r \in ProblemOutcomes(a.args, a.kwargs) :
          calls' = Append(calls,
                          ProblemRecord(a, problem__new__(a.args, a.kwargs, r)))
    /\ UNCHANGED <<fmtArgs, fmtResults, func, closure, filter>>

\* the caller's program renames the original callable
Rename ==
    /\ func.name # Renamed
    /\ func' = [func EXCEPT !.name = Renamed]
    /\ UNCHANGED <<fmtArgs, fmtResults, closure, filter, calls>>

\* the binding layer sets, changes or removes func.__objclass__
SetObjclass ==
    /\ \E o \in Objclasses \ {func.objclass} : func' = [func EXCEPT !.objclass = o]
    /\ UNCHANGED <<fmtArgs, fmtResults, closure, filter, calls>>

\* the caller changes the warning filter
SetFilter ==
    /\ \E p \in Filters \ {filter} : filter' = p
    /\ UNCHANGED <<fmtArgs, fmtResults, func, closure, calls>>

WrapperInit ==
    /\ func \in [name : FuncNames, objclass : Objclasses]
    /\ closure = Unbound
    /\ filter = "always"
    /\ calls = <<>>

Init ==
    /\ fmtArgs = [what |-> PyStr("function"), old_name |-> PyStr("problem"),
                  new_name |-> PyStr("Problem"), class_name |-> PyNone]
    /\ fmtResults = <<>>
    /\ WrapperInit

Next ==
    \/ Decorate
    \/ WrapperCall
    \/ ProblemCall
    \/ Rename
    \/ SetObjclass
    \/ SetFilter

Spec == Init /\ [][Next]_vars

-----------------------------------------------------------------------------
(* Direct calls of the formatter *)

FmtCall ==
    /\ Len(fmtResults) < MaxRepeat
    /\ fmtResults' = Append(fmtResults,
           generate_deprecation_warning_msg(
               fmtArgs.what, fmtArgs.old_name, fmtArgs.new_name, fmtArgs.class_name))
    /\ UNCHANGED <<fmtArgs, func, closure, filter, calls>>

FmtInit ==
    /\ fmtArgs \in FmtInputs
    /\ fmtResults = <<>>
    /\ func = [name |-> "solve", objclass |-> Absent]
    /\ closure = Unbound
    /\ filter = "always"
    /\ calls = <<>>

FmtNext == FmtCall

FmtSpec == FmtInit /\ [][FmtNext]_vars

-----------------------------------------------------------------------------
(* Properties of the formatter, checked under FmtSpec *)

FmtCalled == Len(fmtResults) > 0
Rejected == fmtArgs.what = PyStr("class") /\ fmtArgs.class_name # PyNone

C2_DocstringRaises ==
    \A i \in DOMAIN fmtResults :
        (fmtArgs.class_name # PyNone /\ fmtArgs.what # PyStr("class"))
            => /\ fmtResults[i].kind = "raise"
               /\ fmtResults[i].exc.type = "ValueError"

\* the reference text of the message for the current arguments
Reference ==
    IF fmtArgs.class_name = PyNone
    THEN MsgText(fmtArgs.what, fmtArgs.old_name, fmtArgs.new_name, "")
    ELSE MsgText(fmtArgs.what, fmtArgs.old_name, fmtArgs.new_name,
                 "in class '" \o Str(fmtArgs.class_name) \o "' ")

\* C3: every accepted input yields exactly the reference string, with the
\* clause "in class '{class_name}' " when class_name is present and nothing
\* in its place when it is absent; ("function", "problem", "Problem") yields
\* the documented sentence; repeated calls on the same input agree.
C3_ExactMessage ==
    /\ \A i \in DOMAIN fmtResults :
          fmtResults[i].kind = "return" => fmtResults[i].value = PyStr(Reference)
    /\ \A i, j \in DOMAIN fmtResults : fmtResults[i] = fmtResults[j]
    /\ (/\ FmtCalled
        /\ fmtArgs = [what |-> PyStr("function"), old_name |-> PyStr("problem"),
                      new_name |-> PyStr("Problem"), class_name |-> PyNone])
       => fmtResults[1].value.s =
            "The function named 'problem' will soon be deprecated in CyIpopt. Please replace all uses and use 'Problem' going forward."
    /\ (/\ FmtCalled
        /\ fmtArgs = [what |-> PyStr("method"), old_name |-> PyStr("solve"),
                      new_name |-> PyStr("Solve"), class_name |-> PyInt(12)])
       => fmtResults[1].value.s =
            "The method named 'solve' in class '12' will soon be deprecated in CyIpopt. Please replace all uses and use 'Solve' going forward."

\* the formatter was called twice on an accepted input with a class_name
C3_Witness ==
    /\ Len(fmtResults) = MaxRepeat
    /\ fmtArgs.what = PyStr("method")
    /\ fmtArgs.class_name = PyStr("A")
    /\ fmtResults[MaxRepeat].kind = "return"

NoClassNameCase ==
    /\ fmtArgs.what \in {PyStr("function"), PyStr("method")}
    /\ fmtArgs.class_name = PyNone

\* C4 as stated: with what in {function, method} and no class_name the
\* message never contains "in class", whatever old_name and new_name are.
C4_NeverInClass ==
    \A i \in DOMAIN fmtResults :
        NoClassNameCase => ~Contains(Str(fmtResults[i].value), "in class")

\* C4 amended: with what in {function, method} and no class_name the
\* formatter itself adds no "in class": the message contains "in class"
\* exactly when old_name or new_name contains it.
C4_InClassOnlyFromNames ==
    \A i \in DOMAIN fmtResults :
        NoClassNameCase =>
            (Contains(Str(fmtResults[i].value), "in class")
             <=> \/ Contains(Str(fmtArgs.old_name), "in class")
                 \/ Contains(Str(fmtArgs.new_name), "in class"))

\* a message without class_name was produced from names free of "in class"
C4_Witness ==
    /\ FmtCalled
    /\ NoClassNameCase
    /\ fmtArgs.old_name = PyStr("solve")
    /\ fmtArgs.new_name = PyStr("Solve")
    /\ ~Contains(Str(fmtResults[1].value), "in class")

-----------------------------------------------------------------------------
(* Properties of the wrappers, checked under Spec *)

WrapperCalls == {i \in DOMAIN calls : calls[i].target = "wrapper"}
ProblemCalls == {i \in DOMAIN calls : calls[i].target = "problem"}

Steps(c, op) == {k \in DOMAIN c.trace : c.trace[k].op = op}
Completed(c) == c.outcome.kind = "return"

\* the message of the (first) warning of a call
WarnedMessage(c) == c.trace[CHOOSE k \in Steps(c, "warn") : TRUE].message

\* the number of warnings emitted by the calls to target among the first n
RECURSIVE Emissions(_, _)
Emissions(n, target) ==
    IF n = 0 THEN 0
    ELSE Emissions(n - 1, target)
         + (IF calls[n].target = target
            THEN Cardinality(Steps(calls[n], "warn")) ELSE 0)

RECURSIVE Invocations(_, _)
Invocations(n, target) ==
    IF n = 0 THEN 0
    ELSE Invocations(n - 1, target)
         + (IF calls[n].target = target
            THEN Cardinality(Steps(calls[n], "delegate")) ELSE 0)

\* one completed wrapper call: one warning, one invocation of func with the
\* arguments given, and the value func returned
ForwardsOnce(c) ==
    /\ Cardinality(Steps(c, "warn")) = 1
    /\ Cardinality(Steps(c, "delegate")) = 1
    /\ \A k \in Steps(c, "warn") : c.trace[k].category = "FutureWarning"
    /\ \A k \in Steps(c, "delegate") :
          /\ c.trace[k].callee = "func"
          /\ c.trace[k].args = c.args
          /\ c.trace[k].kwargs = c.kwargs
          /\ c.outcome = c.trace[k].result

AllWrapperCallsCompleted == \A i \in WrapperCalls : Completed(calls[i])

CountsMatch ==
    /\ Emissions(Len(calls), "wrapper") = Cardinality(WrapperCalls)
    /\ Invocations(Len(calls), "wrapper") = Cardinality(WrapperCalls)
    /\ (WrapperCalls = {} => Emissions(Len(calls), "wrapper") = 0)

ProblemMessage ==
    "The class named 'problem' will soon be deprecated in CyIpopt. Please replace all uses and use 'Problem' going forward."

DelegateRaised(c) ==
    \E k \in Steps(c, "delegate") : c.trace[k].result.kind = "raise"

\* C7: when the delegate (func, or Problem) raises, the caller gets that same
\* error; it is not replaced, suppressed or retried, and the warning of that
\* call was emitted exactly once before.
C7_DelegatedErrorUnchanged ==
    \A i \in DOMAIN calls :
        LET c == calls[i] IN
        DelegateRaised(c) =>
            /\ Cardinality(Steps(c, "delegate")) = 1
            /\ \A k \in Steps(c, "delegate") :
                  /\ c.outcome = c.trace[k].result
                  /\ \E w \in Steps(c, "warn") : w < k
            /\ Cardinality(Steps(c, "warn")) = 1

\* func raised in a wrapper call and Problem raised in a problem call
C7_Witness ==
    /\ \E i \in WrapperCalls : DelegateRaised(calls[i])
    /\ \E i \in ProblemCalls : DelegateRaised(calls[i])

\* the call ended in an error raised by the formatter or by the emission
FailedBeforeDelegation(c) ==
    \E k \in Steps(c, "format") \cup Steps(c, "warn") :
        c.trace[k].result.kind = "raise"

\* C8: in every call of the wrapper or of problem the warning is emitted
\* strictly before the delegate is invoked and the delegate is invoked at
\* most once; when the formatter or the emission raises, the delegate is not
\* invoked and that error reaches the caller.
C8_WarnBeforeDelegate ==
    \A i \in DOMAIN calls :
        LET c == calls[i] IN
        /\ Cardinality(Steps(c, "delegate")) <= 1
        /\ \A k \in Steps(c, "delegate") :
              \E w \in Steps(c, "warn") :
                  /\ w < k
                  /\ c.trace[w].result.kind = "return"
        /\ \A k \in Steps(c, "format") \cup Steps(c, "warn") :
              c.trace[k].result.kind = "raise" =>
                  /\ Steps(c, "delegate") = {}
                  /\ c.outcome = c.trace[k].result

\* one call delegated after its warning, another was stopped by the filter
C8_Witness ==
    /\ \E i \in WrapperCalls :
          /\ FailedBeforeDelegation(calls[i])
          /\ calls[i].outcome.exc.type = "FutureWarning"
    /\ \E i \in DOMAIN calls : Steps(calls[i], "delegate") # {}

\* the formatter call of a wrapper call
Formatted(c) == c.trace[CHOOSE k \in Steps(c, "format") : TRUE]

C10_NamesFixedAtDecoration ==
    /\ \A i \in WrapperCalls :
          LET f == Formatted(calls[i]) IN
          /\ closure.bound
          /\ f.old_name = closure.old_name
          /\ f.new_name = closure.new_name
          /\ \A k \in Steps(calls[i], "warn") :
                calls[i].trace[k].message =
                    PyStr(MsgText(f.what, closure.old_name, closure.new_name,
                                  IF f.class_name = PyNone THEN ""
                                  ELSE "in class '" \o Str(f.class_name) \o "' "))
    /\ \A i, j \in WrapperCalls :
          /\ Formatted(calls[i]).old_name = Formatted(calls[j]).old_name
          /\ Formatted(calls[i]).new_name = Formatted(calls[j]).new_name

\* func was renamed after decoration, between two calls of the wrapper
C10_Witness ==
    \E i, j \in WrapperCalls :
        /\ i < j
        /\ PyStr(calls[i].func.name) = closure.old_name
        /\ PyStr(calls[j].func.name) # closure.old_name

====
